---- MODULE Spec2Model ----
(***************************************************************************)
(* Model of the availability interval-partition counter,                   *)
(* src/analytics/measure.py: class CounterInterval and class DeviceCounter *)
(* (the spec's Interval / IntervalPartition / AvailabilityCounter).        *)
(*                                                                         *)
(* One DeviceCounter object is the state (variable self, one field per     *)
(* attribute the code assigns).  Every public method is one action.  The   *)
(* variable last records the most recent call and its outcome (returned    *)
(* value or raised exception).  covering and overlap are history           *)
(* variables: they record, from the calls alone, how many folded events    *)
(* cover each span of the window and the total width the folded events     *)
(* share with the window.  pair holds two further DeviceCounter objects    *)
(* and the heap of their SortedDicts, for the properties of two instances; *)
(* pending holds the calls of two threads on self, folded the bag of the   *)
(* events folded.  The generator availability() of src/analytics/main.py,  *)
(* backfill() of src/ingest, validate() and filter_valid() of src/ingest   *)
(* and default_conflict_update_actions() of src/ingest/database.py each    *)
(* have a variable and a specification of their own.                       *)
(*                                                                         *)
(* The debug flag only prints and the local flag only selects the pair of  *)
(* columns read from a row; neither is modelled.                           *)
(***************************************************************************)
EXTENDS Integers, Sequences, FiniteSets, TLC

VARIABLES self, last, covering, overlap, pair, pending, folded,
          gen, bf, filt, db

\* the variables beside the single counter and its history
\* the variables of the other modules: the frame of the generator
\* availability(), the frame of backfill(), a call of the validation
\* filters, and the objects of the module database
later == <<gen, bf, filt, db>>

others == <<pair, pending, folded, later>>

vars == <<self, last, covering, overlap, others>>

(***************************************************************************)
(* Bounds of the model.                                                    *)
(***************************************************************************)
\* event bounds are drawn from -Past .. Future
Past == 1
Future == 3
\* count_event is called while self.events < MaxEvents
MaxEvents == 3
\* count(data) is called with at most MaxData rows
MaxData == 2

\* calls of count_event on the wide window
MaxWide == 2

\* events folded by each counter of a pair
MaxPair == 2

\* calls of count_event by each thread on a shared counter
MaxShared == 1

\* events of positive width folded into one counter
MaxPositive == 3

Times == (0 - Past)..Future

\* (start, end) pairs a DeviceCounter is constructed with: a window with
\* zero inside, a window that events reach out of on both sides, a
\* degenerate window, and a window given with reversed bounds.
Windows == {<<0 - 1, 2>>, <<0, 2>>, <<1, 1>>, <<2, 0>>}

(***************************************************************************)
(* Python values handed to the counter.                                    *)
(***************************************************************************)
\* a Unix timestamp (an int)
IntVal(i) == [kind |-> "int", v |-> i]
\* Python None
None == [kind |-> "None", v |-> 0]
\* pandas.NaT
NaT == [kind |-> "NaT", v |-> 0]
\* a value neither .timestamp() nor int() accepts, such as "abc"
Junk == [kind |-> "str", v |-> 0]

RawStarts == {IntVal(i) : i \in Times} \cup {None, Junk}
RawEnds == {IntVal(i) : i \in Times} \cup {None, NaT, Junk}

\* what a call returns or raises
Returned(v) == [raised |-> FALSE, value |-> v]
Raised == [raised |-> TRUE, value |-> 0]

Max(a, b) == IF a >= b THEN a ELSE b
Min(a, b) == IF a <= b THEN a ELSE b

(***************************************************************************)
(* class CounterInterval: a closed interval <<left, right>>.               *)
(***************************************************************************)
CounterInterval(start, end) ==
    IF start > end THEN <<end, start>> ELSE <<start, end>>

\* pandas.Interval ordering: by left, then by right
IntervalLE(a, b) == a[1] < b[1] \/ (a[1] = b[1] /\ a[2] <= b[2])

IntervalLT(a, b) == a[1] < b[1] \/ (a[1] = b[1] /\ a[2] < b[2])

\* a length that counts both endpoints
delta_inclusive(i) == i[2] - i[1] + 1

\* CounterInterval.delta (pandas.Interval.length)
delta(i) == i[2] - i[1]

(***************************************************************************)
(* SortedDict, as a function from keys to values.                          *)
(***************************************************************************)
EmptyDict == [k \in {} |-> 0]

SetItem(d, k, val) == [x \in (DOMAIN d) \cup {k} |-> IF x = k THEN val ELSE d[x]]

Pop(d, k) == [x \in (DOMAIN d) \ {k} |-> d[x]]

len(d) == Cardinality(DOMAIN d)

\* SortedDict.bisect_right(k): the number of keys <= k
bisect_right(d, k) == Cardinality({x \in DOMAIN d : IntervalLE(x, k)})

\* DeviceCounter._interval: the key at a 0-based index of the sorted keys
_interval(d, key_index) ==
    CHOOSE k \in DOMAIN d :
        Cardinality({x \in DOMAIN d : IntervalLT(x, k)}) = key_index

(***************************************************************************)
(* class DeviceCounter                                                     *)
(***************************************************************************)
\* DeviceCounter._ts2int: int(ts.timestamp()), else int(ts); raises when
\* neither conversion applies
_ts2int(ts) == IF ts.kind = "int" THEN Returned(ts.v) ELSE Raised

\* a reset that starts the whole window with the count 1
_reset_one(obj) ==
    [obj EXCEPT !.counts = SetItem(EmptyDict, obj.interval, 1),
                !.events = 0,
                !.splits = 0,
                !.counter = 0]

\* DeviceCounter._reset on the object obj
_reset(obj) ==
    [obj EXCEPT !.counts = SetItem(EmptyDict, obj.interval, 0),
                !.events = 0,
                !.splits = 0,
                !.counter = 0]

\* DeviceCounter.__init__ with two Unix timestamps
DeviceCounter(start, end) ==
    _reset([start |-> start,
            end |-> end,
            _start |-> _ts2int(IntVal(start)).value,
            _end |-> _ts2int(IntVal(end)).value,
            interval |-> CounterInterval(start, end),
            delta |-> delta(CounterInterval(start, end)),
            counts |-> EmptyDict,
            events |-> 0,
            splits |-> 0,
            counter |-> 0])

\* the insertion index of the end of the event
_insertidx_from_end(obj, event_start, event_end) ==
    LET e == IF event_end.kind = "None" \/ event_end.v = 0
             THEN obj._end ELSE event_end.v
        index == bisect_right(obj.counts, CounterInterval(e, e)) - 1
    IN  IF index >= 0 THEN index ELSE 0

\* the insertion index without the step back to the interval found
_insertidx_unshifted(obj, event_start, event_end) ==
    LET e == IF event_end.kind = "None" \/ event_end.v = 0
             THEN obj._end ELSE event_end.v
        index == bisect_right(obj.counts, CounterInterval(event_start, e))
    IN  IF index >= 0 THEN index ELSE 0

\* DeviceCounter._insertidx; event_end is None or an integer value, and
\* Python's `end or self._end` takes self._end for None and for 0
_insertidx(obj, event_start, event_end) ==
    LET e == IF event_end.kind = "None" \/ event_end.v = 0
             THEN obj._end ELSE event_end.v
        index == bisect_right(obj.counts, CounterInterval(event_start, e)) - 1
    IN  IF index >= 0 THEN index ELSE 0

\* the accumulators of one count_event call
NewAcc == [to_remove |-> {}, to_add |-> EmptyDict, splits |-> 0, counter |-> 0]

\* an increment by two
spans_twice(acc, interval, count) ==
    [acc EXCEPT
        !.to_add = SetItem(@, CounterInterval(interval[1], interval[2]), count + 2),
        !.counter = @ + 1]

\* count_event, lines 149-153: the event fully spans and contains the
\* interval; increment it
spans(acc, interval, count) ==
    [acc EXCEPT
        !.to_add = SetItem(@, CounterInterval(interval[1], interval[2]), count + 1),
        !.counter = @ + 1]

\* a left split that increments the piece the event does not cover
overlaps_left_swapped(acc, event_end, interval, count) ==
    [acc EXCEPT
        !.to_remove = @ \cup {interval},
        !.to_add = SetItem(SetItem(@,
                       CounterInterval(interval[1], event_end), count),
                       CounterInterval(event_end, interval[2]), count + 1),
        !.splits = @ + 1,
        !.counter = @ + 1]

\* count_event, lines 155-163: the event starts before the interval and
\* overlaps from the left; [start, end] -> [start, event_end]+, [event_end, end]
overlaps_left(acc, event_end, interval, count) ==
    [acc EXCEPT
        !.to_remove = @ \cup {interval},
        !.to_add = SetItem(SetItem(@,
                       CounterInterval(interval[1], event_end), count + 1),
                       CounterInterval(event_end, interval[2]), count),
        !.splits = @ + 1,
        !.counter = @ + 1]

\* a split that keeps the whole event on the right instead of stopping at
\* the end of the interval
overlaps_right_unclamped(acc, event_start, event_end, interval, count) ==
    [acc EXCEPT
        !.to_remove = @ \cup {interval},
        !.to_add = SetItem(SetItem(@,
                       CounterInterval(interval[1], event_start), count),
                       CounterInterval(event_start, event_end), count + 1),
        !.splits = @ + 1,
        !.counter = @ + 1]

\* count_event, lines 165-173: the event starts in the interval and overlaps
\* on the right; [start, end] -> [start, event_start], [event_start, end]+
overlaps_right(acc, event_start, event_end, interval, count) ==
    [acc EXCEPT
        !.to_remove = @ \cup {interval},
        !.to_add = SetItem(SetItem(@,
                       CounterInterval(interval[1], event_start), count),
                       CounterInterval(event_start, interval[2]), count + 1),
        !.splits = @ + 1,
        !.counter = @ + 1]

\* a split in three that counts as one split
contained_one_split(acc, event_start, event_end, interval, count) ==
    [acc EXCEPT
        !.to_remove = @ \cup {interval},
        !.to_add = SetItem(SetItem(SetItem(@,
                       CounterInterval(interval[1], event_start), count),
                       CounterInterval(event_start, event_end), count + 1),
                       CounterInterval(event_end, interval[2]), count),
        !.splits = @ + 1,
        !.counter = @ + 1]

\* count_event, lines 175-184: the event is fully within the interval;
\* [start, end] -> [start, event_start], [event_start, event_end]+,
\* [event_end, end]
contained(acc, event_start, event_end, interval, count) ==
    [acc EXCEPT
        !.to_remove = @ \cup {interval},
        !.to_add = SetItem(SetItem(SetItem(@,
                       CounterInterval(interval[1], event_start), count),
                       CounterInterval(event_start, event_end), count + 1),
                       CounterInterval(event_end, interval[2]), count),
        !.splits = @ + 2,
        !.counter = @ + 1]

\* the closed branch with > in place of >= in its tests of event_end
closed_event_strict(acc, event_start, event_end, interval, count) ==
    LET start == interval[1]
        end == interval[2]
    IN  IF event_start <= start /\ event_end > end
        THEN spans(acc, interval, count)
        ELSE IF event_start <= start /\ event_end > start /\ event_end < end
        THEN overlaps_left(acc, event_end, interval, count)
        ELSE IF event_start > start /\ event_start < end /\ event_end > end
        THEN overlaps_right(acc, event_start, event_end, interval, count)
        ELSE IF event_start > start /\ event_end < end
        THEN contained(acc, event_start, event_end, interval, count)
        ELSE acc

\* count_event, the closed branch of the loop body, lines 148-184
closed_event(acc, event_start, event_end, interval, count) ==
    LET start == interval[1]
        end == interval[2]
    IN  IF event_start <= start /\ event_end >= end
        THEN spans(acc, interval, count)
        ELSE IF event_start <= start /\ event_end > start /\ event_end < end
        THEN overlaps_left(acc, event_end, interval, count)
        ELSE IF event_start > start /\ event_start < end /\ event_end >= end
        THEN overlaps_right(acc, event_start, event_end, interval, count)
        ELSE IF event_start > start /\ event_end < end
        THEN contained(acc, event_start, event_end, interval, count)
        ELSE acc

\* the open branch with <, not <=, in its first test
open_event_strict(acc, event_start, interval, count) ==
    LET start == interval[1]
        end == interval[2]
    IN  IF event_start < start
        THEN spans(acc, interval, count)
        ELSE IF event_start > start /\ event_start <= end
        THEN overlaps_right(acc, event_start, end, interval, count)
        ELSE acc

\* the open branch without the test event_start <= end
open_event_unbounded(acc, event_start, interval, count) ==
    LET start == interval[1]
        end == interval[2]
    IN  IF event_start <= start
        THEN spans(acc, interval, count)
        ELSE IF event_start > start
        THEN overlaps_right(acc, event_start, end, interval, count)
        ELSE acc

\* count_event, the open branch of the loop body, lines 186-202: increment
\* the interval, or [start, end] -> [start, event_start], [event_start, end]+
\* (lines 191-192 repeat lines 152-153, lines 198-202 repeat lines 169-173)
open_event(acc, event_start, interval, count) ==
    LET start == interval[1]
        end == interval[2]
    IN  IF event_start <= start
        THEN spans(acc, interval, count)
        ELSE IF event_start > start /\ event_start <= end
        THEN overlaps_right(acc, event_start, end, interval, count)
        ELSE acc

RECURSIVE walk(_, _, _, _, _)

\* a loop whose body has no branch for an open event
walk_open_skipped(d, event_start, event_end, index, acc) ==
    IF index < len(d)
       /\ (event_end.kind = "None" \/ _interval(d, index)[1] < event_end.v)
    THEN LET interval == _interval(d, index)
             count == d[interval]
         IN  walk(d, event_start, event_end, index + 1,
                  IF event_end.kind # "None"
                  THEN closed_event(acc, event_start, event_end.v, interval, count)
                  ELSE acc)
    ELSE acc

\* count_event, the while loop of lines 142-204: self.counts is only read
walk(d, event_start, event_end, index, acc) ==
    IF index < len(d)
       /\ (event_end.kind = "None" \/ _interval(d, index)[1] < event_end.v)
    THEN LET interval == _interval(d, index)
             count == d[interval]
         IN  walk(d, event_start, event_end, index + 1,
                  IF event_end.kind # "None"
                  THEN closed_event(acc, event_start, event_end.v, interval, count)
                  ELSE open_event(acc, event_start, interval, count))
    ELSE acc

\* a batch that leaves the split intervals in place
pop_none(d, to_remove) == d

\* count_event, lines 206-207: pop every key of to_remove (each was read
\* from self.counts in the same call, so no pop misses)
RECURSIVE pop_all(_, _)
pop_all(d, to_remove) ==
    IF to_remove = {} THEN d
    ELSE LET r == CHOOSE x \in to_remove : TRUE
         IN  pop_all(Pop(d, r), to_remove \ {r})

\* count_event, lines 209-210: store every entry of to_add
update(d, to_add) ==
    [k \in (DOMAIN d) \cup (DOMAIN to_add) |->
        IF k \in DOMAIN to_add THEN to_add[k] ELSE d[k]]

\* DeviceCounter.count_event on integer bounds (event_end None when open):
\* the object after the call
fold(obj, event_start, event_end) ==
    LET index == _insertidx(obj, event_start, event_end)
        acc == walk(obj.counts, event_start, event_end, index, NewAcc)
    IN  [obj EXCEPT
            !.counts = update(pop_all(@, acc.to_remove), acc.to_add),
            !.splits = @ + acc.splits,
            !.counter = @ + acc.counter,
            !.events = @ + 1]

\* count_event, lines 130-131: the conversion of the two arguments
convert(event_start, event_end) ==
    LET s == _ts2int(event_start)
        e == IF event_end.kind = "None" \/ event_end.kind = "NaT"
             THEN Returned(None)
             ELSE LET c == _ts2int(event_end)
                  IN  IF c.raised THEN Raised ELSE Returned(IntVal(c.value))
    IN  IF s.raised \/ e.raised THEN Raised
        ELSE Returned([start |-> s.value, end |-> e.value])

\* a count_event that counts the event before it converts the bounds
count_event_counts_first(obj, event_start, event_end) ==
    LET c == convert(event_start, event_end)
        counted == [obj EXCEPT !.events = @ + 1]
    IN  IF c.raised THEN [raised |-> TRUE, obj |-> counted]
        ELSE [raised |-> FALSE, obj |-> fold(obj, c.value.start, c.value.end)]

\* DeviceCounter.count_event: the object after the call and whether the
\* call raised
count_event(obj, event_start, event_end) ==
    LET c == convert(event_start, event_end)
    IN  IF c.raised THEN [raised |-> TRUE, obj |-> obj]
        ELSE [raised |-> FALSE, obj |-> fold(obj, c.value.start, c.value.end)]

\* rows of the availability view given to count(): start_time, end_time
Row(start_time, end_time) == [start_time |-> start_time, end_time |-> end_time]

\* DeviceCounter.count, lines 253-261, from row number n on: count_event
\* on each row in turn; an exception leaves the loop and the method
RECURSIVE iterrows(_, _, _)
iterrows(obj, data, n) ==
    IF n > Len(data) THEN [raised |-> FALSE, obj |-> obj, folded |-> n - 1]
    ELSE LET r == count_event(obj, data[n].start_time, data[n].end_time)
         IN  IF r.raised THEN [raised |-> TRUE, obj |-> r.obj, folded |-> n - 1]
             ELSE iterrows(r.obj, data, n + 1)

\* a count that folds the rows into the partition it finds
count_without_reset(obj, data) == iterrows(obj, data, 1)

\* DeviceCounter.count(data) with predicate None: reset, then the loop
count(obj, data) == iterrows(_reset(obj), data, 1)

\* DeviceCounter._int2ts: pandas.Timestamp(i, unit="s")
_int2ts(i) == [kind |-> "Timestamp", v |-> i]

\* a partition() that takes the items out of self.counts as it lists them
partition_popitem(obj) ==
    [raised |-> FALSE,
     obj |-> [obj EXCEPT !.counts = EmptyDict],
     value |-> [n \in 1..len(obj.counts) |->
                  LET i == _interval(obj.counts, n - 1)
                  IN  [start |-> i[1],
                       end |-> i[2],
                       delta |-> delta(i),
                       count |-> obj.counts[i],
                       start_date |-> _int2ts(i[1]),
                       end_date |-> _int2ts(i[2])]]]

\* DeviceCounter.partition: one record per item of self.counts, in key
\* order; the object is only read
partition(obj) ==
    [raised |-> FALSE,
     obj |-> obj,
     value |-> [n \in 1..len(obj.counts) |->
                  LET i == _interval(obj.counts, n - 1)
                  IN  [start |-> i[1],
                       end |-> i[2],
                       delta |-> delta(i),
                       count |-> obj.counts[i],
                       start_date |-> _int2ts(i[1]),
                       end_date |-> _int2ts(i[2])]]]

\* DeviceCounter.delta_x: the column delta of partition()
delta_x(obj) ==
    LET p == partition(obj)
    IN  [raised |-> FALSE, obj |-> p.obj,
         value |-> [n \in 1..Len(p.value) |-> p.value[n].delta]]

\* DeviceCounter.norm: max(self.delta_x()), after a call of partition()
norm(obj) ==
    LET p == partition(obj)
        x == delta_x(p.obj)
    IN  [raised |-> FALSE, obj |-> x.obj,
         value |-> CHOOSE m \in {x.value[n] : n \in 1..Len(x.value)} :
                      \A n \in 1..Len(x.value) : x.value[n] <= m]

\* the number of boundaries in place of the number of rows
dimension_boundaries(obj) ==
    LET p == partition(obj)
    IN  [raised |-> FALSE, obj |-> p.obj, value |-> Len(p.value) + 1]

\* DeviceCounter.dimension: len(self.partition())
dimension(obj) ==
    LET p == partition(obj)
    IN  [raised |-> FALSE, obj |-> p.obj, value |-> Len(p.value)]

\* DeviceCounter.average: sigma / self.delta over the rows of partition(),
\* where sigma is a numpy integer, so that a zero self.delta gives nan
\* (sigma = 0) or inf and raises nothing.  A finite quotient is kept as
\* numerator and denominator.
average(obj) ==
    LET p == partition(obj)
        RECURSIVE sum(_)
        sum(n) ==
            IF n = 0 THEN 0
            ELSE p.value[n].count * p.value[n].delta + sum(n - 1)
        sigma == sum(Len(p.value))
    IN  [raised |-> FALSE,
         obj |-> p.obj,
         value |-> IF p.obj.delta # 0
                   THEN [kind |-> "float", num |-> sigma, den |-> p.obj.delta]
                   ELSE IF sigma = 0
                   THEN [kind |-> "nan", num |-> 0, den |-> 0]
                   ELSE [kind |-> "inf", num |-> sigma, den |-> 0]]

\* the value of average() in the record of a call
Quotient(v) == [kind |-> v.kind, num |-> v.num, den |-> v.den, table |-> <<>>]

(***************************************************************************)
(* The state machine.                                                      *)
(***************************************************************************)
\* the window [T0, T1] of the counter
T0 == self.interval[1]
T1 == self.interval[2]

NoValue == [kind |-> "none", num |-> 0, den |-> 0, table |-> <<>>]

\* the value of a call that returned a number, and of one that returned
\* the rows of a table
Number(n) == [kind |-> "int", num |-> n, den |-> 1, table |-> <<>>]

Rowset(t) == [kind |-> "table", num |-> 0, den |-> 0, table |-> t]

\* the pair of counters is not used
NoPair == <<>>

\* no thread calls the counter
NoPending == <<>>

\* the events folded are not listed
NoFolded == <<>>

\* the variables beside the single counter and the pair are not used
IdleLater == gen = <<>> /\ bf = <<>> /\ filt = <<>> /\ db = <<>>

IdleRest == pending = NoPending /\ folded = NoFolded /\ IdleLater

\* the record of a call: the method, its arguments (for count, the data,
\* the number of its rows, and whether the counter had folded an event
\* before the call), whether it raised, and the value it returned
Call(op, event_start, event_end, raised, value) ==
    [op |-> op, event_start |-> event_start, event_end |-> event_end,
     data |-> <<>>, rows |-> 0, used |-> FALSE,
     raised |-> raised, value |-> value]

\* spans [a, b] of positive width inside the window
Spans(i) == {sp \in (i[1]..i[2]) \X (i[1]..i[2]) : sp[1] < sp[2]}

\* the interval an event stands for: an open event stands for
\* [event_start, T1]
EventInterval(event_start, event_end) ==
    IF event_end.kind = "int" THEN <<event_start.v, event_end.v>>
    ELSE <<event_start.v, T1>>

\* the width of the intersection of [a, b] with the window
OverlapWidth(a, b) == Max(0, Min(b, T1) - Max(a, T0))

\* the history variables after a call that returned
Recorded(event_start, event_end) ==
    LET ev == EventInterval(event_start, event_end)
    IN  /\ covering' = [sp \in DOMAIN covering |->
                           IF ev[1] <= sp[1] /\ ev[2] >= sp[2]
                           THEN covering[sp] + 1 ELSE covering[sp]]
        /\ overlap' = overlap + OverlapWidth(ev[1], ev[2])

\* a counter constructed with a pair of W
Construct(W) ==
    \E w \in W :
        /\ self = DeviceCounter(w[1], w[2])
        /\ last = Call("__init__", IntVal(w[1]), IntVal(w[2]), FALSE, NoValue)
        /\ covering = [sp \in Spans(CounterInterval(w[1], w[2])) |-> 0]
        /\ overlap = 0
        /\ pair = NoPair
        /\ IdleRest

Init == Construct(Windows)

\* one call of count_event(event_start, event_end)
CountEvent(event_start, event_end) ==
    /\ self.events < MaxEvents
    /\ LET r == count_event(self, event_start, event_end)
       IN  /\ self' = r.obj
           /\ last' = Call("count_event", event_start, event_end, r.raised, NoValue)
           /\ IF r.raised THEN UNCHANGED <<covering, overlap>>
              ELSE Recorded(event_start, event_end)
           /\ UNCHANGED others

\* closed with event_start <= event_end, open, or not convertible
Chronological(event_start, event_end) ==
    (event_start.kind = "int" /\ event_end.kind = "int")
        => event_start.v <= event_end.v

\* count_event with a chronologically valid or a malformed event
RecordEvent ==
    \E event_start \in RawStarts, event_end \in RawEnds :
        /\ Chronological(event_start, event_end)
        /\ CountEvent(event_start, event_end)

\* count_event with a closed event whose bounds are reversed
RecordReversed ==
    \E event_start \in RawStarts, event_end \in RawEnds :
        /\ ~Chronological(event_start, event_end)
        /\ CountEvent(event_start, event_end)

\* one call of average()
Average ==
    LET r == average(self)
    IN  /\ self' = r.obj
        /\ last' = Call("average", None, None, r.raised, Quotient(r.value))
        /\ UNCHANGED <<covering, overlap, others>>

\* one call of partition()
Partition ==
    LET r == partition(self)
    IN  /\ self' = r.obj
        /\ last' = Call("partition", None, None, r.raised, Rowset(r.value))
        /\ UNCHANGED <<covering, overlap, others>>

\* one call of dimension()
Dimension ==
    LET r == dimension(self)
    IN  /\ self' = r.obj
        /\ last' = Call("dimension", None, None, r.raised, Number(r.value))
        /\ UNCHANGED <<covering, overlap, others>>

\* one call of norm()
Norm ==
    LET r == norm(self)
    IN  /\ self' = r.obj
        /\ last' = Call("norm", None, None, r.raised, Number(r.value))
        /\ UNCHANGED <<covering, overlap, others>>

\* the rows count() is called with: closed events of width 1, open
\* events, a row whose start_time and a row whose end_time is malformed
RowTimes == {0, 1}

Rows ==
    {Row(IntVal(a), IntVal(a + 1)) : a \in RowTimes}
    \cup {Row(IntVal(a), None) : a \in RowTimes}
    \cup {Row(Junk, IntVal(1)), Row(IntVal(0), Junk)}

Datas == UNION {[1..n -> Rows] : n \in 0..MaxData}

\* the history variables after count(data) folded the first n rows
RECURSIVE RecordedRows(_, _, _)
RecordedRows(data, n, i) ==
    IF n = 0 THEN [covering |-> [sp \in Spans(i) |-> 0], overlap |-> 0]
    ELSE LET before == RecordedRows(data, n - 1, i)
             ev == IF data[n].end_time.kind = "int"
                   THEN <<data[n].start_time.v, data[n].end_time.v>>
                   ELSE <<data[n].start_time.v, i[2]>>
         IN  [covering |-> [sp \in Spans(i) |->
                               IF ev[1] <= sp[1] /\ ev[2] >= sp[2]
                               THEN before.covering[sp] + 1
                               ELSE before.covering[sp]],
              overlap |-> before.overlap
                          + Max(0, Min(ev[2], i[2]) - Max(ev[1], i[1]))]

\* one call of count(data)
Count(data) ==
    LET r == count(self, data)
        h == RecordedRows(data, r.folded, self.interval)
    IN  /\ self' = r.obj
        /\ last' = [Call("count", None, None, r.raised, NoValue)
                       EXCEPT !.data = data,
                              !.rows = Len(data),
                              !.used = self.events > 0]
        /\ covering' = h.covering
        /\ overlap' = h.overlap
        /\ UNCHANGED others

FoldAll == \E data \in Datas : Count(data)

Next == RecordEvent \/ Average

Spec == Init /\ [][Next]_vars

NextAny == RecordEvent \/ RecordReversed \/ Average

SpecAny == Init /\ [][NextAny]_vars

\* counters constructed on a degenerate range, T0 = T1
PointWindows == {<<t, t>> : t \in Times}

InitPoint == Construct(PointWindows)

SpecPoint == InitPoint /\ [][NextAny]_vars

\* a window wide enough for two events that overlap strictly inside it
WideWindows == {<<0, Future + 1>>}

InitWide == Construct(WideWindows)

\* count_event on the wide window
RecordWide == self.events < MaxWide /\ RecordEvent

NextWide == RecordWide \/ Average

SpecWide == InitWide /\ [][NextWide]_vars

\* one dictionary, at one address, for every object
alloc_shared(heap) == 1

\* _reset, line 81: SortedDict({...}) is a new dictionary, at an address of
\* the heap that no object holds
alloc(heap) == Cardinality(DOMAIN heap) + 1

\* the heap with the dictionary d stored at the address a
Store(heap, a, d) ==
    [x \in (DOMAIN heap) \cup {a} |-> IF x = a THEN d ELSE heap[x]]

\* DeviceCounter(start, end) constructed on a heap: the heap after, and the
\* object, whose attribute counts is the address of its dictionary
New(heap, start, end) ==
    LET obj == DeviceCounter(start, end)
        a == alloc(heap)
    IN  [heap |-> Store(heap, a, obj.counts),
         obj |-> [obj EXCEPT !.counts = a]]

\* the counter c of the pair p with its dictionary read from the heap
View(p, c) == [p.objs[c] EXCEPT !.counts = p.heap[@]]

\* the windows and the events of the two counters
PairWindows == {<<0, 2>>, <<1, 3>>}

PairEvents ==
    {<<IntVal(0), IntVal(2)>>, <<IntVal(1), IntVal(3)>>,
     <<IntVal(1), None>>, <<IntVal(2), Junk>>}

\* two counters constructed one after the other; the single counter of the
\* other specifications is not called
InitPair ==
    /\ self = DeviceCounter(0, 2)
    /\ last = Call("__init__", IntVal(0), IntVal(2), FALSE, NoValue)
    /\ covering = [sp \in Spans(<<0, 2>>) |-> 0]
    /\ overlap = 0
    /\ \E w1 \in PairWindows, w2 \in PairWindows :
           LET n1 == New(<<>>, w1[1], w1[2])
               n2 == New(n1.heap, w2[1], w2[2])
           IN  pair = [heap |-> n2.heap,
                       objs |-> <<n1.obj, n2.obj>>,
                       calls |-> <<<<>>, <<>>>>]
    /\ IdleRest

\* one call of count_event on the counter c of the pair: the dictionary is
\* changed in place, at its address; calls[c] lists the events c folded
PairCountEvent(c, event_start, event_end) ==
    /\ pair.objs[c].events < MaxPair
    /\ LET a == pair.objs[c].counts
           r == count_event(View(pair, c), event_start, event_end)
       IN  pair' = [pair EXCEPT
                       !.heap = Store(@, a, r.obj.counts),
                       !.objs[c] = [r.obj EXCEPT !.counts = a],
                       !.calls[c] = IF r.raised THEN @
                                    ELSE Append(@, <<event_start, event_end>>)]
    /\ UNCHANGED <<self, last, covering, overlap, pending, folded, later>>

RecordFirst == \E ev \in PairEvents : PairCountEvent(1, ev[1], ev[2])

RecordSecond == \E ev \in PairEvents : PairCountEvent(2, ev[1], ev[2])

NextPair == RecordFirst \/ RecordSecond

SpecPair == InitPair /\ [][NextPair]_vars

\* two threads call count_event on the counter self.  A call is two steps:
\* the conversion, the index lookup and the loop, which read self.counts and
\* add to self.splits and self.counter (lines 130-204), and the batch of
\* pops and stores with the increment of self.events (lines 206-224).
Threads == {1, 2}

SharedWindows == {<<0, 2>>}

SharedEvents ==
    {<<IntVal(0), IntVal(1)>>, <<IntVal(1), IntVal(2)>>,
     <<IntVal(0), None>>, <<IntVal(1), None>>}

\* a batch that pops nothing
pop_each_none(d, to_remove) == [raised |-> FALSE, d |-> d]

\* count_event, lines 206-207, one pop after the other in the order of the
\* SortedSet: pop(r) raises KeyError when r is no key of self.counts, and
\* the keys popped before stay popped
RECURSIVE pop_each(_, _)
pop_each(d, to_remove) ==
    IF to_remove = {} THEN [raised |-> FALSE, d |-> d]
    ELSE LET r == CHOOSE x \in to_remove :
                      \A y \in to_remove : x = y \/ IntervalLT(x, y)
         IN  IF r \notin DOMAIN d THEN [raised |-> TRUE, d |-> d]
             ELSE pop_each(Pop(d, r), to_remove \ {r})

\* pc: where each thread is; event, acc: the arguments and the locals
\* to_remove, to_add of its call; calls: the calls it has started; raced:
\* some call ran its loop while another call was between loop and batch;
\* failed: some call raised
InitShared ==
    /\ \E w \in SharedWindows :
           /\ self = DeviceCounter(w[1], w[2])
           /\ last = Call("__init__", IntVal(w[1]), IntVal(w[2]), FALSE, NoValue)
           /\ covering = [sp \in Spans(CounterInterval(w[1], w[2])) |-> 0]
    /\ overlap = 0
    /\ pair = NoPair
    /\ pending = [pc |-> [t \in Threads |-> "idle"],
                  event |-> [t \in Threads |-> <<None, None>>],
                  acc |-> [t \in Threads |-> NewAcc],
                  calls |-> [t \in Threads |-> 0],
                  raced |-> FALSE,
                  failed |-> FALSE]
    /\ folded = NoFolded
    /\ IdleLater

\* count_event, lines 130-204, by the thread t
Walk(t) ==
    /\ pending.pc[t] = "idle"
    /\ pending.calls[t] < MaxShared
    /\ \E ev \in SharedEvents :
           LET c == convert(ev[1], ev[2]).value
               index == _insertidx(self, c.start, c.end)
               acc == walk(self.counts, c.start, c.end, index, NewAcc)
           IN  /\ self' = [self EXCEPT !.splits = @ + acc.splits,
                                       !.counter = @ + acc.counter]
               /\ pending' = [pending EXCEPT
                     !.pc[t] = "walked",
                     !.event[t] = ev,
                     !.acc[t] = acc,
                     !.calls[t] = @ + 1,
                     !.raced = @ \/ \E u \in Threads \ {t} :
                                       pending.pc[u] = "walked"]
    /\ UNCHANGED <<last, covering, overlap, pair, folded, later>>

\* count_event, lines 206-226, by the thread t
Batch(t) ==
    /\ pending.pc[t] = "walked"
    /\ LET acc == pending.acc[t]
           ev == pending.event[t]
           p == pop_each(self.counts, acc.to_remove)
       IN  /\ self' = IF p.raised THEN [self EXCEPT !.counts = p.d]
                      ELSE [self EXCEPT !.counts = update(p.d, acc.to_add),
                                        !.events = @ + 1]
           /\ last' = Call("count_event", ev[1], ev[2], p.raised, NoValue)
           /\ pending' = [pending EXCEPT !.pc[t] = "idle",
                                         !.failed = @ \/ p.raised]
           /\ IF p.raised THEN UNCHANGED <<covering, overlap>>
              ELSE Recorded(ev[1], ev[2])
    /\ UNCHANGED <<pair, folded, later>>

NextShared == \E t \in Threads : Walk(t) \/ Batch(t)

SpecShared == InitShared /\ [][NextShared]_vars

\* windows of positive width, and the events of positive width folded into
\* them: closed with event_start < event_end, open with event_start < T1
PositiveWindows == {w \in Windows : w[1] # w[2]}

PositiveTimes == (0 - 1)..2

PositiveEvents(t1) ==
    {<<IntVal(p[1]), IntVal(p[2])>> :
        p \in {q \in PositiveTimes \X PositiveTimes : q[1] < q[2]}}
    \cup {<<IntVal(a), None>> : a \in {b \in PositiveTimes : b < t1}}

\* folded is the bag of the events folded: how often each was
InitPositive ==
    /\ \E w \in PositiveWindows :
           /\ self = DeviceCounter(w[1], w[2])
           /\ last = Call("__init__", IntVal(w[1]), IntVal(w[2]), FALSE, NoValue)
           /\ covering = [sp \in Spans(CounterInterval(w[1], w[2])) |-> 0]
           /\ folded = [ev \in PositiveEvents(CounterInterval(w[1], w[2])[2]) |-> 0]
    /\ overlap = 0
    /\ pair = NoPair
    /\ pending = NoPending
    /\ IdleLater

\* count_event with an event of positive width
RecordPositive ==
    /\ self.events < MaxPositive
    /\ \E ev \in PositiveEvents(T1) :
           LET r == count_event(self, ev[1], ev[2])
           IN  /\ self' = r.obj
               /\ last' = Call("count_event", ev[1], ev[2], r.raised, NoValue)
               /\ Recorded(ev[1], ev[2])
               /\ folded' = [folded EXCEPT ![ev] = @ + 1]
    /\ UNCHANGED <<pair, pending, later>>

NextPositive == RecordPositive \/ Average

SpecPositive == InitPositive /\ [][NextPositive]_vars

\* a counter driven through count() alone
NextBatch == FoldAll \/ Average \/ Partition \/ Dimension \/ Norm

SpecBatch == Init /\ [][NextBatch]_vars

(***************************************************************************)
(* Properties.  In an action property last' names the call of the step:   *)
(* a step that changes vars and has last'.op = "count_event" is the call   *)
(* count_event(last'.event_start, last'.event_end).                        *)
(***************************************************************************)
\* the last call was count_event and it returned
Folded == last.op = "count_event" /\ ~last.raised

\* the sub-intervals of d in key order form a chain from i[1] to i[2]
Chain(d, i) ==
    /\ len(d) >= 1
    /\ _interval(d, 0)[1] = i[1]
    /\ _interval(d, len(d) - 1)[2] = i[2]
    /\ \A j \in 0..(len(d) - 2) : _interval(d, j)[2] = _interval(d, j + 1)[1]

\* sum of count * width over the sub-intervals of d
RECURSIVE Area(_, _)
Area(d, keys) ==
    IF keys = {} THEN 0
    ELSE LET k == CHOOSE x \in keys : TRUE
         IN  d[k] * (k[2] - k[1]) + Area(d, keys \ {k})

\* the counts d attaches to the unit cell [c, c + 1]
CellCounts(d, c) == {d[k] : k \in {x \in DOMAIN d : x[1] <= c /\ c + 1 <= x[2]}}

\* C1. Partition invariant: in every state reached by folding
\* chronologically valid events (closed or open, inside or reaching outside
\* the window), the sub-intervals in key order start at T0, each starts where
\* the previous one ends, and the last ends at T1.
C1_PartitionChain == Chain(self.counts, self.interval)

\* C1 witness: an event reaching outside the window was folded into a
\* partition that now has a zero-width and three positive-width sub-intervals.
C1_Witness ==
    /\ Folded
    /\ last.event_end.kind = "int"
    /\ last.event_end.v > T1
    /\ len(self.counts) >= 4
    /\ \E k \in DOMAIN self.counts : k[1] = k[2]

\* C2. Occupancy: the count of every positive-width sub-interval [s, e]
\* equals the number of folded events whose interval covers [s, e].
C2_Occupancy ==
    \A k \in DOMAIN self.counts :
        k[1] < k[2] => (k \in DOMAIN covering /\ self.counts[k] = covering[k])

\* C2 witness: three events were folded and left sub-intervals with the
\* counts 0, 1 and 2.
C2_Witness ==
    /\ Folded
    /\ self.events = 3
    /\ \A n \in 0..2 :
          \E k \in DOMAIN self.counts : k[1] < k[2] /\ self.counts[k] = n

ReversedCall ==
    /\ last'.op = "count_event"
    /\ ~Chronological(last'.event_start, last'.event_end)
    /\ vars' # vars

\* C4. A reversed closed event is a no-op: the call raises nothing and leaves
\* the sub-intervals and their counts as they were.
C4_ReversedNoOp ==
    [][ReversedCall => (~last'.raised /\ self'.counts = self.counts)]_vars

\* chronologically valid events on integer bounds: <<event_start, event_end>>
\* with event_end None for an open event
ValidEvents ==
    {<<a, IntVal(b)>> : a \in Times, b \in Times} \cup {<<a, None>> : a \in Times}

\* the event reaches outside the window
Beyond(ev) ==
    ev[1] < T0 \/ (ev[2].kind = "int" /\ ev[2].v > T1) \/ ev[1] > T1

\* the event lies entirely before T0 or entirely after T1
Outside(ev) == ev[1] > T1 \/ (ev[2].kind = "int" /\ ev[2].v < T0)

\* the event clamped to [max(event_start, T0), min(event_end, T1)]
Clamped(ev) ==
    <<Max(ev[1], T0), IF ev[2].kind = "int" THEN IntVal(Min(ev[2].v, T1)) ELSE None>>

\* no sub-interval of d has an endpoint outside the window
Inside(d) == \A k \in DOMAIN d : T0 <= k[1] /\ k[2] <= T1

\* C5 as claimed: on every reachable partition, folding a chronologically
\* valid event that reaches outside the window gives exactly the partition
\* that folding the clamped event gives; an event entirely outside leaves
\* the partition unchanged; no boundary outside the window is created.
C5_ClampingExact ==
    \A ev \in ValidEvents :
        (Beyond(ev) /\ (ev[2].kind = "int" => ev[1] <= ev[2].v))
        => LET after == fold(self, ev[1], ev[2]).counts
           IN  /\ Inside(after)
               /\ IF Outside(ev) THEN after = self.counts
                  ELSE after = fold(self, Clamped(ev)[1], Clamped(ev)[2]).counts

\* C5 as amended: the same, except that the two partitions agree on their
\* sub-intervals and on the count of every positive-width sub-interval; the
\* count of a zero-width sub-interval may differ.
C5_Clamping ==
    \A ev \in ValidEvents :
        (Beyond(ev) /\ (ev[2].kind = "int" => ev[1] <= ev[2].v))
        => LET after == fold(self, ev[1], ev[2]).counts
               clamped == fold(self, Clamped(ev)[1], Clamped(ev)[2]).counts
           IN  /\ Inside(after)
               /\ IF Outside(ev) THEN after = self.counts
                  ELSE /\ DOMAIN after = DOMAIN clamped
                       /\ \A k \in DOMAIN after :
                             k[1] < k[2] => after[k] = clamped[k]

\* C5 witness: an event that starts inside the window and ends after T1 was
\* folded into a partition that holds the zero-width sub-interval [T1, T1].
C5_Witness ==
    /\ Folded
    /\ T0 < last.event_start.v
    /\ last.event_start.v < T1
    /\ last.event_end.kind = "int"
    /\ last.event_end.v > T1
    /\ <<T1, T1>> \in DOMAIN self.counts
    /\ <<last.event_start.v, T1>> \in DOMAIN self.counts

\* a start, or an end that is not None or NaT, that int() rejects
Malformed(event_start, event_end) ==
    event_start.kind # "int" \/ event_end.kind = "str"

\* C6. Atomic rejection: a count_event call with a malformed bound raises
\* and leaves the partition and the debug counters as they were.
C6_AtomicRejection ==
    [][(/\ last'.op = "count_event"
        /\ Malformed(last'.event_start, last'.event_end)
        /\ vars' # vars)
       => (last'.raised /\ self' = self)]_vars

\* C6 witness: a malformed event was rejected by a counter that had already
\* split its window.
C6_Witness ==
    /\ last.op = "count_event"
    /\ last.raised
    /\ Malformed(last.event_start, last.event_end)
    /\ self.events >= 1
    /\ len(self.counts) >= 2

\* the rows of data that count_event accepts
Clean(data) == SelectSeq(data, LAMBDA r : ~Malformed(r.start_time, r.end_time))

\* C7. Local recovery: count(data) rejects each malformed row alone and
\* folds every other row, so it leaves the partition that count() of the
\* same rows without the malformed ones leaves.
C7_LocalRecovery ==
    [][\A data \in Datas :
          Count(data) => self'.counts = count(self, Clean(data)).obj.counts]_vars

\* C8. average() on a counter with T0 = T1 raises instead of returning.
C8_DegenerateRaises ==
    (last.op = "average" /\ self.delta = 0) => last.raised

\* C9. On a degenerate range every count_event call on integer or absent
\* bounds returns, and the partition keeps the one sub-interval [T0, T0].
C9_DegenerateSinglePoint ==
    T0 = T1 =>
        /\ DOMAIN self.counts = {<<T0, T0>>}
        /\ (last.op = "count_event"
            /\ ~Malformed(last.event_start, last.event_end)) => ~last.raised

\* C9 witness: on a degenerate range, a reversed closed event was folded
\* after two events that raised the count of [T0, T0].
C9_Witness ==
    /\ T0 = T1
    /\ Folded
    /\ ~Chronological(last.event_start, last.event_end)
    /\ self.events = 3
    /\ self.counts[<<T0, T0>>] = 2

\* C10. average() returns sum(count * width) / (T1 - T0); the numerator is
\* the sum over the folded events of the width each shares with the window;
\* after one event covering the window on a fresh counter the partition is
\* the single sub-interval [T0, T1] with count 1 and the average is 1.
C10_Average ==
    (last.op = "average" /\ T0 < T1) =>
        /\ ~last.raised
        /\ last.value.kind = "float"
        /\ last.value.den = T1 - T0
        /\ last.value.num = Area(self.counts, DOMAIN self.counts)
        /\ last.value.num = overlap
        /\ (self.events = 1 /\ covering[<<T0, T1>>] = 1) =>
              /\ self.counts = [k \in {<<T0, T1>>} |-> 1]
              /\ last.value.num = last.value.den

\* C10 witness: average() was called after three events that left the
\* window split, and returned a quotient that is not a whole number.
C10_Witness ==
    /\ last.op = "average"
    /\ T0 < T1
    /\ self.events = 3
    /\ len(self.counts) >= 3
    /\ last.value.num % last.value.den # 0

\* the dictionary with the item <<t[1], t[2]>> : t[3] for every t of S
Cells(S) ==
    [k \in {<<t[1], t[2]>> : t \in S} |->
        (CHOOSE t \in S : <<t[1], t[2]>> = k)[3]]

\* the rows of partition() as (start, end, delta, count)
Table(obj) ==
    LET p == partition(obj).value
    IN  [n \in 1..Len(p) |-> <<p[n].start, p[n].end, p[n].delta, p[n].count>>]

\* Scenario B: [0, 50] then [25, 75] folded into a fresh counter on [0, 100]
ScenarioB == fold(fold(DeviceCounter(0, 100), 0, IntVal(50)), 25, IntVal(75))

ScenarioC == fold(DeviceCounter(0, 100), 80, None)

\* the last call folded an open event
FoldedOpen == Folded /\ last.event_end.kind \in {"None", "NaT"}

\* C12: one open event (x, None) with T0 < x < T1 folded into a fresh
\* counter leaves exactly [T0, x] with the count 0 and [x, T1] with the
\* count 1; on [0, 100] with x = 80 the rows are (0,80,80,0), (80,100,20,1)
\* and the average is 20/100.
C12_OpenEvent ==
    /\ Table(ScenarioC) = <<<<0, 80, 80, 0>>, <<80, 100, 20, 1>>>>
    /\ average(ScenarioC).value = [kind |-> "float", num |-> 20, den |-> 100]
    /\ (FoldedOpen /\ self.events = 1
           /\ T0 < last.event_start.v /\ last.event_start.v < T1)
          => LET x == last.event_start.v
             IN  self.counts = Cells({<<T0, x, 0>>, <<x, T1, 1>>})

\* the only event folded so far is open and starts strictly inside the
\* window
C12_Witness ==
    /\ FoldedOpen /\ self.events = 1
    /\ T0 < last.event_start.v /\ last.event_start.v < T1
    /\ len(self.counts) = 2

\* the items of d whose key has positive width
PositiveWidth(d) == [k \in {x \in DOMAIN d : x[1] < x[2]} |-> d[k]]

\* the step is a count_event of an open event that returned
OpenStep ==
    /\ last'.op = "count_event" /\ ~last'.raised
    /\ last'.event_end.kind \in {"None", "NaT"}
    /\ self'.events = self.events + 1

\* C13 as stated: count_event(event_start, None) leaves the partition that
\* count_event(event_start, T1) would have left.
C13_OpenAsClosedExact ==
    [][OpenStep =>
          self'.counts = fold(self, last'.event_start.v, IntVal(T1)).counts]_vars

\* C13: count_event(event_start, None) leaves the sub-intervals of positive
\* width, with their counts, that count_event(event_start, T1) would have
\* left; sub-intervals of zero width are not compared.
C13_OpenAsClosed ==
    [][OpenStep =>
          PositiveWidth(self'.counts) =
              PositiveWidth(fold(self, last'.event_start.v, IntVal(T1)).counts)]_vars

\* an open event that starts strictly inside the window has just been
\* folded into a partition of several sub-intervals and has split one
C13_Witness ==
    /\ FoldedOpen /\ self.events >= 2
    /\ T0 < last.event_start.v /\ last.event_start.v < T1
    /\ Cardinality(DOMAIN PositiveWidth(self.counts)) >= 3
    /\ \E k \in DOMAIN self.counts : self.counts[k] >= 2

\* C14: count() of a data set without rows on a fresh counter leaves the
\* single sub-interval [T0, T1] with the count 0, and average() then
\* returns 0 when T0 < T1.
C14_EmptyInput ==
    (last.op = "count" /\ last.rows = 0 /\ ~last.used)
        => /\ ~last.raised
           /\ self.counts = Cells({<<T0, T1, 0>>})
           /\ T0 < T1 =>
                  average(self).value =
                      [kind |-> "float", num |-> 0, den |-> T1 - T0]

\* count() has just returned from an empty data set on a fresh counter
\* whose window has positive width
C14_Witness ==
    /\ last.op = "count" /\ last.rows = 0 /\ ~last.used /\ ~last.raised
    /\ T0 < T1

\* the debug counters of an object
Debug(obj) == <<obj.events, obj.splits, obj.counter>>

\* C15: count(data) leaves the partition and the debug counters, and raises
\* or returns, as it does on a fresh counter constructed with the same
\* bounds, whatever the counter had folded before.
C15_FoldAllFromReset ==
    [][last'.op = "count" =>
          LET fresh == count(DeviceCounter(self.start, self.end), last'.data)
          IN  /\ self'.counts = fresh.obj.counts
              /\ Debug(self') = Debug(fresh.obj)
              /\ last'.raised = fresh.raised]_vars

\* count() has just folded rows into a counter that had folded events
\* before the call
C15_Witness ==
    /\ last.op = "count" /\ last.used /\ last.rows >= 1
    /\ self.events >= 1

\* C16: partition(), dimension(), norm() and average() leave the partition
\* and the debug counters as they were, and partition() called again on
\* the state a partition() left returns the rows it returned.
C16_ReadOnly ==
    [][last'.op \in {"partition", "dimension", "norm", "average"} =>
          /\ self'.counts = self.counts
          /\ Debug(self') = Debug(self)
          /\ last'.op = "partition" =>
                 partition(self').value = last'.value.table]_vars

\* partition() has just returned several rows of a counter that has folded
\* events
C16_Witness ==
    /\ last.op = "partition" /\ ~last.raised
    /\ Len(last.value.table) >= 2
    /\ self.events >= 1
    /\ \A n \in 1..Len(last.value.table) :
           self.counts[<<last.value.table[n].start, last.value.table[n].end>>]
               = last.value.table[n].count

\* the key a lies inside the key b
Within(a, b) == b[1] <= a[1] /\ a[2] <= b[2]

\* every count of the partition after is the count of a sub-interval of
\* the partition before that contains its key, or that count plus 1: the
\* same key when the key was there before, every containing key when the
\* key has positive width, and some containing key when a key of zero width
\* is new
Monotone(before, after) ==
    \A ka \in DOMAIN after :
        /\ after[ka] \in Nat
        /\ \E kb \in DOMAIN before :
               Within(ka, kb) /\ after[ka] - before[kb] \in {0, 1}
        /\ ka \in DOMAIN before => after[ka] - before[ka] \in {0, 1}
        /\ ka[1] < ka[2] =>
               \A kb \in DOMAIN before :
                   (kb[1] < kb[2] /\ Within(ka, kb))
                       => after[ka] - before[kb] \in {0, 1}

\* C17: across a count_event with a chronologically valid event the count
\* attached to every instant of [T0, T1] is at least what it was and at
\* most 1 more, the counts are natural numbers in every state, and no
\* method but count(), which resets, lowers a count.
C17_Monotone ==
    [][last'.op # "count" => Monotone(self.counts, self'.counts)]_vars

\* an event has just been folded into a partition that already had a
\* positive count, and two sub-intervals carry different counts
C17_Witness ==
    /\ Folded /\ self.events >= 2
    /\ \E k1, k2 \in DOMAIN self.counts :
           self.counts[k1] >= 2 /\ self.counts[k2] = 0

\* the boundaries of a partition, and its keys of zero width
Boundaries(d) == UNION {{k[1], k[2]} : k \in DOMAIN d}

ZeroWidth(d) == {k \in DOMAIN d : k[1] = k[2]}

\* what the step added: to splits, to the boundaries, to the keys of zero
\* width
NewSplits == self'.splits - self.splits

NewBoundaries == Cardinality(Boundaries(self'.counts) \ Boundaries(self.counts))

NewZeroWidth == Cardinality(ZeroWidth(self'.counts) \ ZeroWidth(self.counts))

\* the event of the step has positive width: closed with event_start <
\* event_end, or open with event_start < T1
PositiveEvent ==
    IF last'.event_end.kind = "int"
    THEN last'.event_start.v < last'.event_end.v
    ELSE last'.event_start.v < T1

InOrder(obj) ==
    [DeviceCounter(obj.interval[1], obj.interval[2]) EXCEPT
        !.counts = obj.counts,
        !.events = obj.events,
        !.splits = obj.splits,
        !.counter = obj.counter]

\* C19: a counter constructed with (b, a), a < b, starts as the single
\* sub-interval [a, b] with the count 0, and every count_event that returns
\* leaves it the partition the call leaves on the counter constructed with
\* (a, b) that holds the same partition.
C19_ReversedConstruction ==
    [][self.start > self.end =>
          /\ last.op = "__init__" =>
                 self.counts = Cells({<<self.end, self.start, 0>>})
          /\ (last'.op = "count_event" /\ ~last'.raised) =>
                 LET c == convert(last'.event_start, last'.event_end).value
                 IN  self'.counts = fold(InOrder(self), c.start, c.end).counts]_vars

\* the object after the first n events of calls are folded into obj
RECURSIVE FoldCalls(_, _, _)
FoldCalls(obj, calls, n) ==
    IF n = 0 THEN obj
    ELSE count_event(FoldCalls(obj, calls, n - 1), calls[n][1], calls[n][2]).obj

\* the counter c of the pair p as its own calls leave it when they run on
\* a counter of their own
Alone(p, c) ==
    FoldCalls(DeviceCounter(p.objs[c].start, p.objs[c].end),
              p.calls[c], Len(p.calls[c]))

\* C20: of two DeviceCounter objects, under every interleaving of their
\* count_event calls, each holds the partition its own calls leave on a
\* counter that runs alone, and a call on one leaves the partition and the
\* debug counters of the other as they were.
C20_Independent ==
    [][\A c \in {1, 2} :
          /\ View(pair', c).counts = Alone(pair', c).counts
          /\ pair'.calls[c] = pair.calls[c] =>
                 /\ View(pair', c).counts = View(pair, c).counts
                 /\ Debug(View(pair', c)) = Debug(View(pair, c))]_vars

\* both counters have folded events of their own and hold different
\* partitions
C20_Witness ==
    /\ pair # NoPair
    /\ Len(pair.calls[1]) = MaxPair /\ Len(pair.calls[2]) = MaxPair
    /\ pair.calls[1] # pair.calls[2]
    /\ View(pair, 1).splits >= 1 /\ View(pair, 2).splits >= 1
    /\ View(pair, 1).counts # View(pair, 2).counts

\* no call is between its loop and its batch
Quiet == \A t \in Threads : pending.pc[t] = "idle"

\* the partition is the chain over the window with the counts of C2, no
\* call raised, and the area under the counts is the width the events
\* share with the window
Sound ==
    /\ Chain(self.counts, self.interval)
    /\ \A k \in DOMAIN self.counts : k[1] < k[2] => self.counts[k] = covering[k]
    /\ Area(self.counts, DOMAIN self.counts) = overlap
    /\ ~pending.failed

\* C21: on a counter two threads share, the calls of count_event leave a
\* sound partition as long as no call runs its loop while another call is
\* between its loop and its batch; when calls do so interleave, states are
\* reached in which the partition is no chain or an increment is missing
\* (C21_Witness).
C21_AtomicBatch == (Quiet /\ ~pending.raced) => Sound

\* two calls interleaved between loop and batch, both returned, and the
\* sub-intervals overlap
C21_Witness ==
    /\ pending # NoPending
    /\ Quiet /\ pending.raced /\ ~pending.failed
    /\ self.events = 2
    /\ ~Chain(self.counts, self.interval)

\* the end values of the events given to _insertidx: an integer or None
EventEnds == {IntVal(t) : t \in Times} \cup {None}

\* the width the sub-interval k shares with the event: an open event
\* reaches to the right without bound, and the bounds of a closed event are
\* taken as given (count_event does not swap them), so that a closed event
\* with event_start > event_end shares no width with any sub-interval
Shared(k, event_start, event_end) ==
    IF event_end.kind = "None" THEN Max(0, k[2] - Max(k[1], event_start))
    ELSE Max(0, Min(k[2], event_end.v) - Max(k[1], event_start))

\* C22: for every event and every reachable partition, _insertidx returns
\* an index i with 0 <= i <= dimension() - 1, and no sub-interval at an
\* index smaller than i shares a positive width with the event.
C22_InsertionIndex ==
    \A event_start \in Times, event_end \in EventEnds :
        LET i == _insertidx(self, event_start, event_end)
        IN  /\ 0 <= i /\ i <= dimension(self).value - 1
            /\ \A j \in 0..(i - 1) :
                   Shared(_interval(self.counts, j), event_start, event_end) = 0

\* the partition has three sub-intervals or more and the index of some
\* event that reaches into the window is not the first
C22_Witness ==
    /\ Folded /\ len(self.counts) >= 3
    /\ \E event_start \in Times, event_end \in EventEnds :
           /\ _insertidx(self, event_start, event_end) >= 1
           /\ event_start < T1
           /\ event_end.kind = "int" => event_start < event_end.v

\* C23: in every state reached by folding chronologically valid events
\* into a counter constructed with start <= end, dimension() is 1 + splits,
\* hence at least 1.
C23_Dimension ==
    self.start <= self.end =>
        /\ dimension(self).value = 1 + self.splits
        /\ dimension(self).value >= 1

\* a counter constructed with start < end has folded events that split
\* three times, one of them into a sub-interval of zero width
C23_Witness ==
    /\ Folded /\ self.start < self.end
    /\ self.splits >= 3
    /\ ZeroWidth(self.counts) # {}

\* C24: on a counter with T0 < T1, after closed events with event_start <
\* event_end and open events with event_start < T1 alone, every
\* sub-interval has positive width.
C24_NoZeroWidth == ZeroWidth(self.counts) = {}

\* the events of a bag in one fixed order: by event_start, then by
\* event_end, an open event last
Before(a, b) ==
    \/ a[1].v < b[1].v
    \/ /\ a[1].v = b[1].v
       /\ a[2].kind = "int"
       /\ (b[2].kind = "int" => a[2].v < b[2].v)

\* obj after count_event(ev) n times
RECURSIVE Repeat(_, _, _)
Repeat(obj, ev, n) ==
    IF n = 0 THEN obj ELSE Repeat(count_event(obj, ev[1], ev[2]).obj, ev, n - 1)

\* obj after the events of evs are folded in the fixed order, each as often
\* as the bag says
RECURSIVE InOrderOf(_, _, _)
InOrderOf(obj, bag, evs) ==
    IF evs = {} THEN obj
    ELSE LET ev == CHOOSE x \in evs : \A y \in evs : x = y \/ Before(x, y)
         IN  InOrderOf(Repeat(obj, ev, bag[ev]), bag, evs \ {ev})

\* C25: for a window with T0 < T1 and a bag of events of positive width,
\* every order of folding leaves the partition that one fixed order leaves,
\* and so the same average().
C25_OrderIndependent ==
    LET fixed == InOrderOf(DeviceCounter(self.start, self.end), folded, DOMAIN folded)
    IN  /\ self.counts = fixed.counts
        /\ average(self).value = average(fixed).value

(***************************************************************************)
(* src/analytics/main.py: the generator availability().  Time is counted   *)
(* in half days, so that end may fall inside a window.                     *)
(***************************************************************************)
\* step = datetime.timedelta(days=1), in half days
step == 2

\* end - start of a call is at most MaxSpan half days
MaxSpan == 5

\* _end as a window cut at the end of the range
window_end_clamped(start, end) == Min(start + step, end)

\* _end = start + step
window_end(start, end) == start + step

\* q.get(): the availability records of the window, read from the
\* database: any of these frames
Availability(start, _end) ==
    {<<>>,
     <<Row(IntVal(start), IntVal(start + 1))>>,
     <<Row(IntVal(start + 1), None)>>,
     <<Row(IntVal(start), IntVal(_end)), Row(IntVal(start + 1), None)>>}

\* the tuple of one pass of the loop body: (start, _end, devices.count(data))
\* with devices = measure.DeviceCounter(start, _end); data is kept as well
yield(start, end, data) ==
    LET _end == window_end(start, end)
        devices == DeviceCounter(start, _end)
        r == count(devices, data)
    IN  [start |-> start, _end |-> _end, devices |-> r.obj,
         raised |-> r.raised, data |-> data]

AvailabilityArgs ==
    {<<start, end>> \in {0, 1} \X ((0 - 1)..(1 + MaxSpan)) : end - start <= MaxSpan}

\* the call availability(provider_name, vehicle_type, start, end): the
\* generator object, not yet started
InitAvailability ==
    /\ self = DeviceCounter(0, 2)
    /\ last = Call("__init__", IntVal(0), IntVal(2), FALSE, NoValue)
    /\ covering = [sp \in Spans(<<0, 2>>) |-> 0]
    /\ overlap = 0
    /\ pair = NoPair
    /\ pending = NoPending
    /\ folded = NoFolded
    /\ \E a \in AvailabilityArgs :
           gen = [first |-> a[1], end |-> a[2], start |-> a[1],
                  yielded |-> <<>>, done |-> FALSE]
    /\ bf = <<>>
    /\ filt = <<>>
    /\ db = <<>>

\* next() on the generator while start < end: one pass of the loop body up
\* to the yield, then start = _end when the generator is resumed
Yield ==
    /\ ~gen.done
    /\ gen.start < gen.end
    /\ \E data \in Availability(gen.start, window_end(gen.start, gen.end)) :
           LET y == yield(gen.start, gen.end, data)
           IN  gen' = [gen EXCEPT !.yielded = Append(@, y),
                                  !.start = y._end,
                                  !.done = y.raised]
    /\ UNCHANGED <<self, last, covering, overlap, pair, pending, folded,
                   bf, filt, db>>

\* next() on the generator when start >= end: the loop and the generator end
StopIteration ==
    /\ ~gen.done
    /\ ~(gen.start < gen.end)
    /\ gen' = [gen EXCEPT !.done = TRUE]
    /\ UNCHANGED <<self, last, covering, overlap, pair, pending, folded,
                   bf, filt, db>>

NextAvailability == Yield \/ StopIteration

SpecAvailability == InitAvailability /\ [][NextAvailability]_vars

\* C26: availability(start, end) yields consecutive windows of one day:
\* the k-th window yielded (k from 0) is [start + k days, start + (k+1)
\* days], each window starts where the one before ended and starts before
\* end, the generator ends only when the next start is not before end (so
\* nothing is yielded when start >= end, and the last window may end after
\* end), and the counter yielded with a window was constructed for that
\* window and has counted that window's records only.
C26_DailyWindows ==
    LET y == gen.yielded
    IN  /\ \A k \in 1..Len(y) :
               /\ y[k].start = gen.first + (k - 1) * step
               /\ y[k]._end = gen.first + k * step
               /\ y[k].start < gen.end
               /\ k > 1 => y[k].start = y[k - 1]._end
               /\ y[k].devices.start = y[k].start
               /\ y[k].devices.end = y[k]._end
               /\ y[k].devices.interval = <<y[k].start, y[k]._end>>
               /\ y[k].devices.events = Len(y[k].data)
        /\ gen.start = gen.first + Len(y) * step
        /\ gen.done => gen.start >= gen.end
        /\ (gen.first >= gen.end) => y = <<>>

\* the generator ended after two windows or more, the last one ending
\* after end, and some window had records
C26_Witness ==
    /\ gen.done
    /\ Len(gen.yielded) >= 2
    /\ gen.yielded[Len(gen.yielded)]._end > gen.end
    /\ \E k \in 1..Len(gen.yielded) : gen.yielded[k].devices.events > 0

(***************************************************************************)
(* src/ingest/ingest.py: backfill() (the loop of backfill() in             *)
(* src/ingest/main.py 473-483 is the same).  A datetime is a number of     *)
(* half seconds since 2018-12-31T00:00:00 and a timedelta a number of half *)
(* seconds: duration is a whole number of seconds (--duration has          *)
(* type=int), so duration / 2 is exact.                                    *)
(***************************************************************************)
\* datetime.timedelta(seconds=seconds)
timedelta(seconds) == 2 * seconds

\* duration is at most MaxDuration seconds
MaxDuration == 3

\* end_time is at most MaxRange half seconds after 2018-12-31T00:00:00
MaxRange == 4

\* an offset of the whole duration
offset_whole(duration) == duration

\* offset = duration / 2
offset(duration) == duration \div 2

\* the example of the docstring: start_time=datetime(2018,12,31,0,0,0),
\* end_time=datetime(2019,1,1,0,0,0), duration=21600
Example ==
    [start_time |-> 0, end_time |-> timedelta(86400), duration |-> 21600]

BackfillArgs ==
    [start_time : {0, 1}, end_time : 0..MaxRange, duration : 1..MaxDuration]
    \cup {Example}

\* the call backfill(record_type, start_time=.., end_time=.., duration=..)
\* up to the loop, lines 37-43
InitBackfill ==
    /\ self = DeviceCounter(0, 2)
    /\ last = Call("__init__", IntVal(0), IntVal(2), FALSE, NoValue)
    /\ covering = [sp \in Spans(<<0, 2>>) |-> 0]
    /\ overlap = 0
    /\ pair = NoPair
    /\ pending = NoPending
    /\ folded = NoFolded
    /\ gen = <<>>
    /\ \E kwargs \in BackfillArgs :
           LET duration == timedelta(kwargs.duration)
           IN  bf = [kwargs |-> kwargs,
                     duration |-> duration,
                     offset |-> offset(duration),
                     end |-> kwargs.end_time + offset(duration),
                     start |-> kwargs.start_time,
                     requests |-> <<>>,
                     done |-> FALSE]
    /\ filt = <<>>
    /\ db = <<>>

\* one pass of the loop, lines 47-53: run(record_type, start_time=_start,
\* end_time=end) is recorded as a request; time.sleep changes nothing
Run ==
    /\ ~bf.done
    /\ bf.end >= bf.start
    /\ LET _start == bf.end - bf.duration
       IN  bf' = [bf EXCEPT !.requests = Append(@, <<_start, bf.end>>),
                            !.end = bf.end - bf.offset]
    /\ UNCHANGED <<self, last, covering, overlap, pair, pending, folded,
                   gen, filt, db>>

\* the loop ends, line 47, and backfill returns
Return ==
    /\ ~bf.done
    /\ ~(bf.end >= bf.start)
    /\ bf' = [bf EXCEPT !.done = TRUE]
    /\ UNCHANGED <<self, last, covering, overlap, pair, pending, folded,
                   gen, filt, db>>

NextBackfill == Run \/ Return

SpecBackfill == InitBackfill /\ [][NextBackfill]_vars

\* backfill is a sequential loop that runs until it returns
FairBackfill == SpecBackfill /\ WF_vars(NextBackfill)

\* the requests so far, for start_time <= end_time
Requested ==
    LET r == bf.requests
        half == timedelta(bf.kwargs.duration) \div 2
    IN  bf.kwargs.start_time <= bf.kwargs.end_time =>
            /\ \A k \in 1..Len(r) :
                   /\ r[k][2] - r[k][1] = timedelta(bf.kwargs.duration)
                   /\ k = 1 => r[k][2] = bf.kwargs.end_time + half
                   /\ k > 1 => /\ r[k][2] = r[k - 1][2] - half
                               /\ r[k - 1][1] = r[k][2] - half
            /\ bf.done =>
                   \A t \in (bf.kwargs.start_time - half)..(bf.kwargs.end_time + half) :
                       \E k \in 1..Len(r) : r[k][1] <= t /\ t <= r[k][2]

\* C27: backfill with duration > 0 and start_time <= end_time requests
\* windows of length duration, the first ending at end_time + duration/2
\* and each next one duration/2 earlier than the one before (they overlap
\* by duration/2); it returns, and by then every time of
\* [start_time - duration/2, end_time + duration/2] is in a requested window.
C27_Backfill == []Requested /\ <>bf.done

\* backfill returned after three requests or more with start_time < end_time
C27_Witness ==
    /\ bf.done
    /\ bf.kwargs.start_time < bf.kwargs.end_time
    /\ Len(bf.requests) >= 3

\* hours after 2018-12-31T00:00:00
hours(h) == timedelta(3600 * h)

\* C28: backfill with the arguments of the docstring's example issues nine
\* requests, the first for 2018-12-31T21:00:00 to 2019-01-01T03:00:00 and
\* the last for 2018-12-30T21:00:00 to 2018-12-31T03:00:00, and none for a
\* window that ends at start_time.
C28_DocstringRequests ==
    LET r == bf.requests
    IN  bf.kwargs = Example =>
            /\ Len(r) <= 9
            /\ \A k \in 1..Len(r) : r[k][2] # bf.kwargs.start_time
            /\ Len(r) >= 1 => r[1] = <<hours(21), hours(27)>>
            /\ bf.done => /\ Len(r) = 9
                          /\ r[9] = <<hours(0 - 3), hours(3)>>

(***************************************************************************)
(* src/ingest/validation.py validate() and src/ingest/validate.py          *)
(* filter_valid().  A record is a dict with a device_id and, possibly, a   *)
(* property the schema does not know; a payload has a version and the list *)
(* of its records.  Positions in a list are counted from 1.  The loop body *)
(* treats each source on its own: a call has one well-formed source.       *)
(***************************************************************************)
\* a payload has at most MaxRecords records
MaxRecords == 2

Record(device_id, extra) == [device_id |-> device_id, extra |-> extra]

Records == {Record("a", FALSE), Record("a", TRUE), Record("b", FALSE)}

Versions == {"0.3.2", "0.4.0"}

Payloads ==
    [version : Versions,
     data : UNION {[1..n -> Records] : n \in 0..MaxRecords}]

\* what validator.validate(source) may yield for a payload: an item error at
\* a position, an unexpected property of the record at a position, an error
\* that is kept, an error of the payload as a whole
Error(kind, idx) == [kind |-> kind, idx |-> idx]

Errors(source) ==
    {Error("item", i) : i \in 1..Len(source.data)}
    \cup {Error("unexpected", i) : i \in {k \in 1..Len(source.data) : source.data[k].extra}}
    \cup {Error("keep", 0), Error("payload", 0)}

\* validation._failure (45-67) and the __failure of filter_valid (39-57):
\* (failure, idx) of an error; the deletion of the unexpected property is in
\* cleaned below
_failure(error) ==
    CASE error.kind = "unexpected" -> [failure |-> FALSE, idx |-> 0]
      [] error.kind = "keep" -> [failure |-> FALSE, idx |-> 0]
      [] error.kind = "item" -> [failure |-> FALSE, idx |-> error.idx]
      [] OTHER -> [failure |-> TRUE, idx |-> 0]

\* the records after del error.instance[prop] for every unexpected property
cleaned(records, found) ==
    [k \in 1..Len(records) |->
        IF Error("unexpected", k) \in found
        THEN [records[k] EXCEPT !.extra = FALSE] ELSE records[k]]

\* list.index: the first position of a record equal to r
index(records, r) ==
    CHOOSE k \in 1..Len(records) :
        /\ records[k] = r
        /\ \A j \in 1..(k - 1) : records[j] # r

\* records.index(records[k])
index_of(records, k) == index(records, records[k])

\* the records at the positions in keep, in their order
RECURSIVE Pick(_, _, _)
Pick(records, keep, n) ==
    IF n = 0 THEN <<>>
    ELSE IF n \in keep THEN Append(Pick(records, keep, n - 1), records[n])
         ELSE Pick(records, keep, n - 1)

\* [r for r in records if records.index(r) not in invalid_idx]
valid_records(records, invalid_idx) ==
    Pick(records,
         {k \in 1..Len(records) : index_of(records, k) \notin invalid_idx},
         Len(records))

\* [r for r in records if records.index(r) in invalid_idx]
invalid_records(records, invalid_idx) ==
    Pick(records,
         {k \in 1..Len(records) : index_of(records, k) \in invalid_idx},
         Len(records))

\* validation.validate(record_type, [source], version) when the validator
\* yields the errors found: (raised, valid, errors, removed)
validate(source, version, found) ==
    IF version # source.version
    THEN [raised |-> TRUE, valid |-> <<>>, errors |-> {}, removed |-> <<>>]
    ELSE LET records == cleaned(source.data, found)
             invalid_source == \E error \in found : _failure(error).failure
             invalid_idx == {_failure(error).idx :
                                error \in {e \in found : ~_failure(e).failure
                                                          /\ e.kind = "item"}}
             kept == IF invalid_idx # {}
                     THEN valid_records(records, invalid_idx) ELSE records
             dropped == IF invalid_idx # {}
                        THEN invalid_records(records, invalid_idx) ELSE <<>>
         IN  [raised |-> FALSE,
              valid |-> IF ~invalid_source /\ Len(kept) > 0
                        THEN <<[source EXCEPT !.data = kept]>> ELSE <<>>,
              errors |-> found,
              removed |-> IF ~invalid_source /\ Len(dropped) > 0
                          THEN <<[source EXCEPT !.data = dropped]>> ELSE <<>>]

\* validate.filter_valid(record_type, [page]) when the validator yields the
\* errors found: the list of the valid pages
filter_valid(page, found) ==
    LET data == cleaned(page.data, found)
        invalid == \E error \in found : _failure(error).failure
        invalid_index == {_failure(error).idx :
                             error \in {e \in found : ~_failure(e).failure
                                                       /\ e.kind = "item"}}
    IN  IF invalid THEN <<>>
        ELSE IF invalid_index # {}
             THEN <<[page EXCEPT !.data = valid_records(data, invalid_index)]>>
             ELSE <<[page EXCEPT !.data = data]>>

\* a payload, the version asked for and the errors of the payload
InitValidation ==
    /\ self = DeviceCounter(0, 2)
    /\ last = Call("__init__", IntVal(0), IntVal(2), FALSE, NoValue)
    /\ covering = [sp \in Spans(<<0, 2>>) |-> 0]
    /\ overlap = 0
    /\ pair = NoPair
    /\ pending = NoPending
    /\ folded = NoFolded
    /\ gen = <<>>
    /\ bf = <<>>
    /\ \E source \in Payloads, version \in Versions :
           \E found \in SUBSET Errors(source) :
               filt = [op |-> "none", source |-> source, version |-> version,
                       found |-> found, raised |-> FALSE, valid |-> <<>>,
                       removed |-> <<>>]
    /\ db = <<>>

\* the call validation.validate(record_type, [source], version)
Validate ==
    /\ filt.op = "none"
    /\ LET r == validate(filt.source, filt.version, filt.found)
       IN  filt' = [filt EXCEPT !.op = "validate", !.raised = r.raised,
                                !.valid = r.valid, !.removed = r.removed]
    /\ UNCHANGED <<self, last, covering, overlap, pair, pending, folded,
                   gen, bf, db>>

\* the call validate.filter_valid(record_type, [page])
FilterValid ==
    /\ filt.op = "none"
    /\ filt' = [filt EXCEPT !.op = "filter_valid",
                            !.valid = filter_valid(filt.source, filt.found)]
    /\ UNCHANGED <<self, last, covering, overlap, pair, pending, folded,
                   gen, bf, db>>

NextValidation == Validate \/ FilterValid

SpecValidation == InitValidation /\ [][NextValidation]_vars

\* the positions flagged by an item error
Flagged == {e.idx : e \in {x \in filt.found : x.kind = "item"}}

\* the payload has no failure and the call returned
Filtered ==
    /\ filt.op # "none"
    /\ ~filt.raised
    /\ Error("payload", 0) \notin filt.found

\* the records of the only payload of an output, none if the output is empty
Output(payloads) == IF payloads = <<>> THEN <<>> ELSE payloads[1].data

\* C29: for a payload with no payload-level failure, the removed output
\* holds the records at the positions flagged by an item error and the
\* valid output the records at the other positions, so that each record of
\* the payload is in exactly one of the two - also with equal records.
\* filter_valid has the valid output only.
C29_FilterByPosition ==
    Filtered =>
        LET records == cleaned(filt.source.data, filt.found)
            n == Len(records)
        IN  /\ Output(filt.valid) = Pick(records, (1..n) \ Flagged, n)
            /\ filt.op = "validate" =>
                   Output(filt.removed) = Pick(records, Flagged, n)

(***************************************************************************)
(* src/ingest/database.py: UPDATE_ACTIONS and                              *)
(* default_conflict_update_actions().  A dict of actions is the set of its *)
(* columns (the action of a column is fixed by the column); the dicts live *)
(* in a heap, and UPDATE_ACTIONS maps a record type to the address of its  *)
(* dict.  A version is <<major, minor, patch>>.                            *)
(***************************************************************************)
\* at most MaxCalls calls
MaxCalls == 3

RecordTypes == {"events", "status_changes", "trips", "vehicles"}

DbVersions == {<<0, 3, 2>>, <<0, 4, 0>>, <<0, 4, 1>>}

\* mds.Version._040_()
Version_040_ == <<0, 4, 0>>

\* version >= other
ge(version, other) ==
    \/ version[1] > other[1]
    \/ version[1] = other[1] /\ version[2] > other[2]
    \/ version[1] = other[1] /\ version[2] = other[2] /\ version[3] >= other[3]

StatusChangesActions ==
    {"event_type", "event_type_reason", "event_location", "battery_pct",
     "associated_trip", "sequence_id"}

TripsActions ==
    {"trip_duration", "trip_distance", "route", "accuracy", "start_time",
     "end_time", "parking_verification_url", "standard_cost", "actual_cost",
     "sequence_id"}

VehiclesActions ==
    {"last_event_time", "last_event_type", "last_event_type_reason",
     "last_event_location", "current_location", "battery_pct", "ttl",
     "sequence_id"}

\* the three dicts of the literal, lines 21-52, in the order of the literal
Defaults == <<StatusChangesActions, TripsActions, VehiclesActions>>

\* UPDATE_ACTIONS after line 53: events has the dict of status_changes
UPDATE_ACTIONS ==
    [record_type \in RecordTypes |->
        CASE record_type = "status_changes" -> 1
          [] record_type = "trips" -> 2
          [] record_type = "vehicles" -> 3
          [] record_type = "events" -> 1]

\* the module after import
InitDatabase ==
    /\ self = DeviceCounter(0, 2)
    /\ last = Call("__init__", IntVal(0), IntVal(2), FALSE, NoValue)
    /\ covering = [sp \in Spans(<<0, 2>>) |-> 0]
    /\ overlap = 0
    /\ pair = NoPair
    /\ pending = NoPending
    /\ folded = NoFolded
    /\ gen = <<>>
    /\ bf = <<>>
    /\ filt = <<>>
    /\ db = [heap |-> Defaults, calls |-> <<>>, actions |-> {}]

\* default_conflict_update_actions(record_type, version) on the heap:
\* actions is the dict of UPDATE_ACTIONS itself, and the additions are
\* written into it
default_conflict_update_actions(heap, record_type, version) ==
    LET actions == UPDATE_ACTIONS[record_type]
        added == IF ge(version, Version_040_)
                 THEN IF record_type \in {"events", "status_changes"}
                      THEN {"associated_ticket"}
                      ELSE IF record_type = "trips" THEN {"currency"} ELSE {}
                 ELSE {}
    IN  [heap |-> [heap EXCEPT ![actions] = @ \cup added],
         actions |-> actions]

\* one call; db.actions is the dict returned, as the caller reads it
DefaultActions ==
    /\ Len(db.calls) < MaxCalls
    /\ \E record_type \in RecordTypes, version \in DbVersions :
           LET r == default_conflict_update_actions(db.heap, record_type, version)
           IN  db' = [heap |-> r.heap,
                      calls |-> Append(db.calls, <<record_type, version>>),
                      actions |-> r.heap[r.actions]]
    /\ UNCHANGED <<self, last, covering, overlap, pair, pending, folded,
                   gen, bf, filt>>

NextDatabase == DefaultActions

SpecDatabase == InitDatabase /\ [][NextDatabase]_vars

\* C30: default_conflict_update_actions leaves the dicts of UPDATE_ACTIONS
\* as they were at import, and after any earlier calls a call with a
\* version before 0.4.0 returns actions without associated_ticket and
\* without currency.
C30_DefaultsUnchanged ==
    /\ db.heap = Defaults
    /\ db.calls # <<>> =>
           LET c == db.calls[Len(db.calls)]
           IN  ~ge(c[2], Version_040_) =>
                   /\ "associated_ticket" \notin db.actions
                   /\ "currency" \notin db.actions

====
